---- MODULE Spec2Model ----
(***************************************************************************)
(* Model of the maintenance utilities of mcp_memory_service:               *)
(*   utils/db_utils.py  validate_database, repair_database,                *)
(*                      get_database_stats                                 *)
(*   utils/hashing.py   generate_content_hash                              *)
(* Texts that the code only builds (messages, paths, the hash input) are   *)
(* TLA+ strings; texts that it takes apart (the fields of a stored         *)
(* metadata) are sequences of characters.                                  *)
(* Four specifications share the module: SpecRepair (validation and        *)
(* repair), SpecHash (the content hash), SpecStats (the scan of the        *)
(* store) and SpecTop (the top tags of a histogram).                       *)
(***************************************************************************)
EXTENDS Integers, Sequences, FiniteSets, TLC

VARIABLES
    \* ---- environment of validate_database / repair_database
    clock,          \* time.time(): [sec, half], half = the fractional part is >= .5
    health,         \* what a probe of the storage does now
    storeCount,     \* collection.count() when the probe works
    collection,     \* storage.collection: identity of the handle object
    nextHandle,     \* identity of the next handle the client will hand out
    backupDirs,     \* BACKUPS_PATH on disk: path -> names of the entries in it
    chromaItems,    \* CHROMA_PATH on disk: os.listdir, as [name, kind]
    \* ---- the running repair_database call
    pc,             \* position of the call ("idle": no call is running)
    backup_path,    \* local backup_path
    todo,           \* items of the for loop not yet visited
    startHandle,    \* storage.collection when the call started
    madeDir,        \* os.makedirs returned in this call
    recreateCalled, \* get_or_create_collection was called in this call
    failedAt,       \* [step, e]: the step of this call that raised, and str(e)
    is_valid,       \* local is_valid of the final validation
    result,         \* the pair repair_database returned, until the caller took it
    vresult,        \* the pair validate_database returned, until the caller took it
    repairs,        \* backup names computed so far: [sec, path] per call
    \* ---- a call of generate_content_hash
    hcontent,       \* argument content
    hmeta,          \* argument metadata: [is_none, items], items in insertion order
    hresult,        \* None before the call; then [exc, hash]
    \* ---- the store that get_database_stats scans, and its call
    records,        \* collection.get(): [document, memory_type, tags, timestamp]
    stats,          \* None before the call; then the dict it returned
    \* ---- the tag histogram of a scan and the top tags made of it
    tagHist,        \* stats["tags"]: [key, n] in insertion order
    topTags         \* None before lines 157-158; then Some(stats["top_tags"])

repairVars == <<clock, health, storeCount, collection, nextHandle, backupDirs,
                chromaItems, pc, backup_path, todo, startHandle, madeDir,
                recreateCalled, failedAt, is_valid, result, vresult, repairs>>

hashVars == <<hcontent, hmeta, hresult>>

statsVars == <<records, stats>>

topVars == <<tagHist, topTags>>

vars == <<repairVars, hashVars, statsVars, topVars>>

None == <<>>

\* ------------------------------------------------------------------ bounds
MaxSec == 1
MaxRepairs == 2
MaxCount == 1

\* ------------------------------------------------------- validate_database
Health == {"ok", "no_collection", "count_raises"}

\* str(e) of the exception a probe raises
ProbeError(h) ==
    IF h = "no_collection"
    THEN "'ChromaMemoryStorage' object has no attribute 'collection'"
    ELSE "Collection is unavailable"

ValidateAlwaysOk(h, n) ==
    <<TRUE, "Database validated successfully. Contains " \o ToString(n) \o " memories.">>

\* validate_database(storage): the pair it returns; it assigns nothing
validate_database(h, n) ==
    IF h = "ok"
    THEN <<TRUE, "Database validated successfully. Contains " \o ToString(n) \o " memories.">>
    ELSE <<FALSE, "Database validation failed: " \o ProbeError(h)>>

ValidateCall ==
    /\ pc = "idle"
    /\ vresult' = validate_database(health, storeCount)
    /\ pc' = "validated"
    /\ UNCHANGED <<clock, health, storeCount, collection, nextHandle, backupDirs,
                   chromaItems, backup_path, todo, startHandle, madeDir,
                   recreateCalled, failedAt, is_valid, result, repairs>>
    /\ UNCHANGED <<hashVars, statsVars, topVars>>

\* the caller has taken the pair
ValidateReturn ==
    /\ pc = "validated"
    /\ pc' = "idle"
    /\ vresult' = None
    /\ UNCHANGED <<clock, health, storeCount, collection, nextHandle, backupDirs,
                   chromaItems, backup_path, todo, startHandle, madeDir,
                   recreateCalled, failedAt, is_valid, result, repairs>>
    /\ UNCHANGED <<hashVars, statsVars, topVars>>

\* --------------------------------------------------------- repair_database
IntOfTime(t) == t.sec

BackupPathNoSuffix(t) == "backups/chroma_backup_"

\* os.path.join(BACKUPS_PATH, f"chroma_backup_{int(time.time())}")
BackupPath(t) == "backups/chroma_backup_" \o ToString(IntOfTime(t))

MakeDirsNoop(dirs, path) == dirs

\* os.makedirs(path, exist_ok=True): an existing directory is left as it is
MakeDirs(dirs, path) ==
    IF path \in DOMAIN dirs THEN dirs
    ELSE [p \in DOMAIN dirs \cup {path} |-> IF p = path THEN {} ELSE dirs[p]]

\* shutil.copy2 / shutil.copytree of one entry into the backup directory
CopyInto(dirs, path, name) ==
    IF path \in DOMAIN dirs THEN [dirs EXCEPT ![path] = @ \cup {name}] ELSE dirs

\* the destination of a copytree exists already
DestExists(dirs, path, name) ==
    path \in DOMAIN dirs /\ name \in dirs[path]

RepairExceptSwallow(e) == <<TRUE, "Database repaired successfully. Backup created at " \o e>>

\* except Exception as e: return False, f"Database repair failed: {str(e)}"
RepairExcept(e) == <<FALSE, "Database repair failed: " \o e>>

NoFailure == [step |-> "none", e |-> ""]

\* the call starts: the try block is entered
RepairStart ==
    /\ pc = "idle"
    /\ Len(repairs) < MaxRepairs
    /\ pc' = "import"
    /\ startHandle' = collection
    /\ UNCHANGED <<clock, health, storeCount, collection, nextHandle, backupDirs,
                   chromaItems, backup_path, todo, madeDir, recreateCalled,
                   failedAt, is_valid, result, vresult, repairs>>
    /\ UNCHANGED <<hashVars, statsVars, topVars>>

\* the caller has taken the pair; the call's locals are gone
RepairReturn ==
    /\ pc = "done"
    /\ pc' = "idle"
    /\ startHandle' = 0
    /\ madeDir' = FALSE
    /\ recreateCalled' = FALSE
    /\ failedAt' = NoFailure
    /\ is_valid' = FALSE
    /\ backup_path' = ""
    /\ todo' = <<>>
    /\ result' = None
    /\ UNCHANGED <<clock, health, storeCount, collection, nextHandle, backupDirs,
                   chromaItems, vresult, repairs>>
    /\ UNCHANGED <<hashVars, statsVars, topVars>>

\* a step of the call raises: the outer except returns the failure
Raise(step, e) ==
    /\ pc' = "done"
    /\ failedAt' = [step |-> step, e |-> e]
    /\ result' = RepairExcept(e)

\* from ..config import BACKUPS_PATH, CHROMA_PATH ; backup_path = ...
RepairImport ==
    /\ pc = "import"
    /\ \E ok \in BOOLEAN :
        IF ok
        THEN /\ pc' = "mkdir"
             /\ backup_path' = BackupPath(clock)
             /\ repairs' = Append(repairs, [sec |-> IntOfTime(clock),
                                            path |-> BackupPath(clock)])
             /\ UNCHANGED <<failedAt, result>>
        ELSE /\ Raise("import", "cannot import name 'BACKUPS_PATH'")
             /\ UNCHANGED <<backup_path, repairs>>
    /\ UNCHANGED <<clock, health, storeCount, collection, nextHandle, backupDirs,
                   chromaItems, todo, startHandle, madeDir, recreateCalled,
                   is_valid, vresult>>
    /\ UNCHANGED <<hashVars, statsVars, topVars>>

\* os.makedirs(backup_path, exist_ok=True)
RepairMkdir ==
    /\ pc = "mkdir"
    /\ \E ok \in BOOLEAN :
        IF ok
        THEN /\ pc' = "list"
             /\ backupDirs' = MakeDirs(backupDirs, backup_path)
             /\ madeDir' = TRUE
             /\ UNCHANGED <<failedAt, result>>
        ELSE /\ Raise("mkdir", "[Errno 13] Permission denied: '" \o backup_path \o "'")
             /\ UNCHANGED <<backupDirs, madeDir>>
    /\ UNCHANGED <<clock, health, storeCount, collection, nextHandle,
                   chromaItems, backup_path, todo, startHandle, recreateCalled,
                   is_valid, vresult, repairs>>
    /\ UNCHANGED <<hashVars, statsVars, topVars>>

\* for item in os.listdir(CHROMA_PATH)
RepairList ==
    /\ pc = "list"
    /\ \E ok \in BOOLEAN :
        IF ok
        THEN /\ pc' = "copy"
             /\ todo' = chromaItems
             /\ UNCHANGED <<failedAt, result>>
        ELSE /\ Raise("list", "[Errno 2] No such file or directory: 'chroma_db'")
             /\ UNCHANGED todo
    /\ UNCHANGED <<clock, health, storeCount, collection, nextHandle, backupDirs,
                   chromaItems, backup_path, startHandle, madeDir, recreateCalled,
                   is_valid, vresult, repairs>>
    /\ UNCHANGED <<hashVars, statsVars, topVars>>

\* one iteration of the loop: copy2 a file, copytree a directory, skip the rest
RepairCopy ==
    /\ pc = "copy"
    /\ todo # <<>>
    /\ LET item == Head(todo) IN
        \E ok \in BOOLEAN :
          IF item.kind = "other"
          THEN /\ todo' = Tail(todo)
               /\ UNCHANGED <<pc, backupDirs, failedAt, result>>
          ELSE IF item.kind = "dir" /\ DestExists(backupDirs, backup_path, item.name)
          THEN \* copytree refuses a destination that exists
               /\ Raise("copy", "[Errno 17] File exists: '" \o backup_path \o "/" \o item.name \o "'")
               /\ UNCHANGED <<todo, backupDirs>>
          ELSE IF ok
          THEN /\ todo' = Tail(todo)
               /\ backupDirs' = CopyInto(backupDirs, backup_path, item.name)
               /\ UNCHANGED <<pc, failedAt, result>>
          ELSE /\ Raise("copy", "[Errno 28] No space left on device")
               /\ UNCHANGED <<todo, backupDirs>>
    /\ UNCHANGED <<clock, health, storeCount, collection, nextHandle,
                   chromaItems, backup_path, startHandle, madeDir, recreateCalled,
                   is_valid, vresult, repairs>>
    /\ UNCHANGED <<hashVars, statsVars, topVars>>

\* the loop is over
RepairCopied ==
    /\ pc = "copy"
    /\ todo = <<>>
    /\ pc' = "recreate"
    /\ UNCHANGED <<clock, health, storeCount, collection, nextHandle, backupDirs,
                   chromaItems, backup_path, todo, startHandle, madeDir,
                   recreateCalled, failedAt, is_valid, result, vresult, repairs>>
    /\ UNCHANGED <<hashVars, statsVars, topVars>>

\* storage.collection = storage.client.get_or_create_collection(...)
RepairRecreate ==
    /\ pc = "recreate"
    /\ recreateCalled' = TRUE
    /\ \E ok \in BOOLEAN :
        IF ok
        THEN /\ pc' = "validate"
             /\ collection' = nextHandle
             /\ nextHandle' = nextHandle + 1
             /\ \E h \in {"ok", "count_raises"} : health' = h
             /\ UNCHANGED <<failedAt, result>>
        ELSE /\ Raise("recreate", "Could not connect to tenant default_tenant")
             /\ UNCHANGED <<collection, nextHandle, health>>
    /\ UNCHANGED <<clock, storeCount, backupDirs, chromaItems, backup_path, todo,
                   startHandle, madeDir, is_valid, vresult, repairs>>
    /\ UNCHANGED <<hashVars, statsVars, topVars>>

\* is_valid, message = await validate_database(storage) ; return ...
RepairValidate ==
    /\ pc = "validate"
    /\ LET v == validate_database(health, storeCount) IN
        /\ is_valid' = v[1]
        /\ result' = IF v[1]
                     THEN <<TRUE, "Database repaired successfully. Backup created at "
                                   \o backup_path>>
                     ELSE <<FALSE, "Repair attempt completed but validation still fails: "
                                   \o v[2]>>
    /\ pc' = "done"
    /\ UNCHANGED <<clock, health, storeCount, collection, nextHandle, backupDirs,
                   chromaItems, backup_path, todo, startHandle, madeDir,
                   recreateCalled, failedAt, vresult, repairs>>
    /\ UNCHANGED <<hashVars, statsVars, topVars>>

\* ------------------------------------------------------------ environment
\* half a second passes
Tick ==
    /\ clock' = IF clock.half THEN [sec |-> clock.sec + 1, half |-> FALSE]
                ELSE [sec |-> clock.sec, half |-> TRUE]
    /\ clock'.sec <= MaxSec
    /\ UNCHANGED <<health, storeCount, collection, nextHandle, backupDirs,
                   chromaItems, pc, backup_path, todo, startHandle, madeDir,
                   recreateCalled, failedAt, is_valid, result, vresult, repairs>>
    /\ UNCHANGED <<hashVars, statsVars, topVars>>

\* the wall clock is set back by a second (time.time() is not monotonic)
ClockBack ==
    /\ clock.sec > 0
    /\ clock' = [clock EXCEPT !.sec = @ - 1]
    /\ UNCHANGED <<health, storeCount, collection, nextHandle, backupDirs,
                   chromaItems, pc, backup_path, todo, startHandle, madeDir,
                   recreateCalled, failedAt, is_valid, result, vresult, repairs>>
    /\ UNCHANGED <<hashVars, statsVars, topVars>>

\* the store breaks or recovers between calls
Fault ==
    /\ pc = "idle"
    /\ \E h \in Health : health' = h /\ h # health
    /\ UNCHANGED <<clock, storeCount, collection, nextHandle, backupDirs,
                   chromaItems, pc, backup_path, todo, startHandle, madeDir,
                   recreateCalled, failedAt, is_valid, result, vresult, repairs>>
    /\ UNCHANGED <<hashVars, statsVars, topVars>>

Listings ==
    { <<>>,
      <<[name |-> "chroma.sqlite3", kind |-> "file"], [name |-> "index", kind |-> "dir"]>>,
      <<[name |-> "lock", kind |-> "other"], [name |-> "index", kind |-> "dir"]>> }

InitRepair ==
    /\ clock = [sec |-> 0, half |-> FALSE]
    /\ health = "ok"
    /\ storeCount \in 0..MaxCount
    /\ collection = 0
    /\ nextHandle = 1
    /\ backupDirs = <<>>
    /\ chromaItems \in Listings
    /\ pc = "idle"
    /\ backup_path = ""
    /\ todo = <<>>
    /\ startHandle = 0
    /\ madeDir = FALSE
    /\ recreateCalled = FALSE
    /\ failedAt = NoFailure
    /\ is_valid = FALSE
    /\ result = None
    /\ vresult = None
    /\ repairs = <<>>
    \* nothing else is going on
    /\ hcontent = ""
    /\ hmeta = [is_none |-> TRUE, items |-> <<>>]
    /\ hresult = None
    /\ records = <<>>
    /\ stats = None
    /\ tagHist = <<>>
    /\ topTags = None

NextRepair ==
    \/ ValidateCall
    \/ ValidateReturn
    \/ RepairStart
    \/ RepairImport
    \/ RepairMkdir
    \/ RepairList
    \/ RepairCopy
    \/ RepairCopied
    \/ RepairRecreate
    \/ RepairValidate
    \/ RepairReturn
    \/ Tick
    \/ ClockBack
    \/ Fault

SpecRepair == InitRepair /\ [][NextRepair]_vars

\* --------------------------------- claims on validate_database, repair_database
\* every file and directory of the store location is in the backup directory
BackupComplete ==
    /\ backup_path \in DOMAIN backupDirs
    /\ \A i \in DOMAIN chromaItems :
          chromaItems[i].kind \in {"file", "dir"}
            => chromaItems[i].name \in backupDirs[backup_path]

\* C1: whenever get_or_create_collection has been called in a repair_database
\* call, os.makedirs returned earlier in that call and the backup directory
\* exists, also when the re-creation raised.
C1_BackupDirBeforeRecreate ==
    recreateCalled => (madeDir /\ backup_path \in DOMAIN backupDirs)

\* C1 witness: the re-creation was called and raised, after the directory was made
C1_Witness ==
    /\ pc = "done" /\ recreateCalled /\ failedAt.step = "recreate"
    /\ collection = startHandle
    /\ backup_path \in DOMAIN backupDirs

\* C2: a validate_database call always returns a pair: (TRUE, "... Contains n
\* memories.") when the probe counts n records, (FALSE, message with the cause)
\* when reading the collection or counting raises; it leaves the store as it was.
C2_ValidateNeverRaises ==
    [][(pc = "idle" /\ pc' = "validated") =>
         /\ health = "ok" =>
               vresult' = <<TRUE, "Database validated successfully. Contains "
                                  \o ToString(storeCount) \o " memories.">>
         /\ health # "ok" =>
               vresult' = <<FALSE, "Database validation failed: " \o ProbeError(health)>>
         /\ UNCHANGED <<health, storeCount, collection, nextHandle, backupDirs,
                        chromaItems>>]_vars

\* C2 witness: the count probe raised and the call returned the failure pair
C2_Witness ==
    /\ pc = "validated" /\ health = "count_raises"
    /\ vresult = <<FALSE, "Database validation failed: Collection is unavailable">>

\* C9 (as stated): any two sequential repairs use distinct backup directory names
C9_SequentialNamesDistinct ==
    \A i, j \in DOMAIN repairs : i # j => repairs[i].path # repairs[j].path

\* C9 (amended): two sequential repairs use distinct backup directory names
\* exactly when the whole seconds their clock readings truncate to differ.
C9_NamesDistinctIffSecondsDiffer ==
    \A i, j \in DOMAIN repairs :
        (repairs[i].path # repairs[j].path) <=> (repairs[i].sec # repairs[j].sec)

\* C9 witness: a second repair, in another second, succeeded with its own directory
C9_Witness ==
    /\ Len(repairs) = 2 /\ repairs[1].sec # repairs[2].sec
    /\ pc = "done" /\ result[1]
    /\ Cardinality(DOMAIN backupDirs) = 2

\* C10: when a step of the backup raised, repair_database returns (FALSE,
\* message with the cause), get_or_create_collection was not called and
\* storage.collection is the handle of before the call; it returns TRUE only
\* when the backup is complete, the collection was re-created and the final
\* validation passed.
C10_BackupFailureAborts ==
    pc = "done" =>
      /\ failedAt.step \in {"mkdir", "list", "copy"} =>
            /\ result = <<FALSE, "Database repair failed: " \o failedAt.e>>
            /\ ~recreateCalled
            /\ collection = startHandle
      /\ result[1] =>
            /\ failedAt = NoFailure
            /\ madeDir /\ BackupComplete
            /\ recreateCalled /\ collection # startHandle
            /\ is_valid /\ health = "ok"
            /\ result[2] = "Database repaired successfully. Backup created at "
                             \o backup_path

\* C10 witness: a copy raised half way through the backup
C10_Witness ==
    /\ pc = "done" /\ failedAt.step = "copy" /\ ~result[1]
    /\ backup_path \in DOMAIN backupDirs /\ backupDirs[backup_path] # {}

\* ---------------------------------------------------- generate_content_hash
\* Python values: [t, s, items]. s is the text of a str, one character per
\* element, and the repr of a number or bool; items are the elements of a list
\* and the [k, v] pairs of a dict (k the characters of the key), in insertion
\* order.
PyStr(cs) == [t |-> "str", s |-> cs, items |-> <<>>]
PyInt(n) == [t |-> "int", items |-> <<>>,
             s |-> IF n < 0 THEN <<"-", ToString(-n)>> ELSE <<ToString(n)>>]
PyFloat(r) == [t |-> "float", s |-> <<r>>, items |-> <<>>]
PyBool(b) == [t |-> "bool", s |-> IF b THEN <<"true">> ELSE <<"false">>, items |-> <<>>]
PyNone == [t |-> "none", s |-> <<>>, items |-> <<>>]
PyObject == [t |-> "object", s |-> <<>>, items |-> <<>>]
PyList(xs) == [t |-> "list", s |-> <<>>, items |-> xs]
PyDict(ps) == [t |-> "dict", s |-> <<>>, items |-> ps]

\* ''.join(cs)
RECURSIVE Concat(_)
Concat(cs) == IF cs = <<>> THEN "" ELSE Head(cs) \o Concat(Tail(cs))

\* str < str on the keys of the model
KeyOrder == << <<"a">>, <<"b">>, <<"c">> >>
KeyRank(k) == CHOOSE i \in DOMAIN KeyOrder : KeyOrder[i] = k

RECURSIVE InsertPair(_, _)
InsertPair(p, sorted) ==
    IF sorted = <<>> THEN <<p>>
    ELSE IF KeyRank(p.k) < KeyRank(Head(sorted).k) THEN <<p>> \o sorted
    ELSE <<Head(sorted)>> \o InsertPair(p, Tail(sorted))

RECURSIVE SortPairs(_)
SortKeysOff(ps) == ps

\* sort_keys=True: the items of a dict, sorted by key
SortPairs(ps) ==
    IF ps = <<>> THEN <<>>
    ELSE InsertPair(Head(ps), SortPairs(Tail(ps)))

\* json.dumps raises TypeError on a value that is, or holds, an object the
\* encoder does not know
RECURSIVE Serializable(_)
Serializable(v) ==
    CASE v.t = "object" -> FALSE
      [] v.t = "list" -> \A i \in DOMAIN v.items : Serializable(v.items[i])
      [] v.t = "dict" -> \A i \in DOMAIN v.items : Serializable(v.items[i].v)
      [] OTHER -> TRUE

\* json.dumps(v, sort_keys=True) with the default separators ", " and ": "
RECURSIVE JsonDumps(_)
RECURSIVE JoinValues(_)
RECURSIVE JoinPairs(_)
JsonDumps(v) ==
    CASE v.t = "str" -> "\"" \o Concat(v.s) \o "\""
      [] v.t = "none" -> "null"
      [] v.t = "list" -> "[" \o JoinValues(v.items) \o "]"
      [] v.t = "dict" -> "{" \o JoinPairs(SortPairs(v.items)) \o "}"
      [] OTHER -> Concat(v.s)

JoinValues(xs) ==
    IF xs = <<>> THEN ""
    ELSE IF Len(xs) = 1 THEN JsonDumps(xs[1])
    ELSE JsonDumps(xs[1]) \o ", " \o JoinValues(Tail(xs))

JoinPairs(ps) ==
    IF ps = <<>> THEN ""
    ELSE IF Len(ps) = 1 THEN "\"" \o Concat(ps[1].k) \o "\": " \o JsonDumps(ps[1].v)
    ELSE "\"" \o Concat(ps[1].k) \o "\": " \o JsonDumps(ps[1].v) \o ", "
         \o JoinPairs(Tail(ps))

\* hashlib.sha256(text.encode('utf-8')).hexdigest(): a function of the text,
\* with no two texts of the model sharing a digest
Sha256Hex(text) == [sha256 |-> text]

\* isinstance(v, (str, int, float, bool, list, dict))
IsInstanceSerializable(v) == v.t \in {"str", "int", "float", "bool", "list", "dict"}

\* generate_content_hash(content, metadata): [exc, hash]
generate_content_hash(content, metadata) ==
    LET serializable_metadata ==
            IF metadata.is_none \/ metadata.items = <<>> THEN <<>>
            ELSE SelectSeq(metadata.items, LAMBDA p : IsInstanceSerializable(p.v))
    IN  IF serializable_metadata = <<>>
        THEN [exc |-> "none", hash |-> Sha256Hex(content)]
        ELSE IF Serializable(PyDict(serializable_metadata))
        THEN [exc |-> "none",
              hash |-> Sha256Hex(content \o JsonDumps(PyDict(serializable_metadata)))]
        ELSE [exc |-> "TypeError", hash |-> Sha256Hex("")]

\* the call
Derive ==
    /\ hresult = None
    /\ hresult' = generate_content_hash(hcontent, hmeta)
    /\ UNCHANGED <<hcontent, hmeta>>
    /\ UNCHANGED <<repairVars, statsVars, topVars>>

\* ---- inputs of the model
MaxMetaLen == 2

Contents == {"", "note", "{}"}

MetaValues ==
    { PyStr(<<"x">>), PyInt(1), PyBool(TRUE), PyFloat("1.5"), PyNone, PyObject,
      PyList(<<>>), PyList(<<PyInt(1), PyNone>>), PyList(<<PyObject>>),
      PyDict(<<[k |-> <<"b">>, v |-> PyInt(1)], [k |-> <<"a">>, v |-> PyStr(<<"x">>)]>>),
      PyDict(<<[k |-> <<"a">>, v |-> PyObject]>>) }

MetaKeys == {KeyOrder[i] : i \in DOMAIN KeyOrder}

\* mappings of at most MaxMetaLen entries, in every insertion order
MetaItems ==
    UNION { { ps \in [1..n -> [k : MetaKeys, v : MetaValues]] :
                \A i, j \in 1..n : i # j => ps[i].k # ps[j].k }
            : n \in 0..MaxMetaLen }

InitHash ==
    /\ hcontent \in Contents
    /\ hmeta \in {[is_none |-> TRUE, items |-> <<>>]}
                 \cup {[is_none |-> FALSE, items |-> ps] : ps \in MetaItems}
    /\ hresult = None
    \* nothing else is going on
    /\ clock = [sec |-> 0, half |-> FALSE]
    /\ health = "ok"
    /\ storeCount = 0
    /\ collection = 0
    /\ nextHandle = 1
    /\ backupDirs = <<>>
    /\ chromaItems = <<>>
    /\ pc = "idle"
    /\ backup_path = ""
    /\ todo = <<>>
    /\ startHandle = 0
    /\ madeDir = FALSE
    /\ recreateCalled = FALSE
    /\ failedAt = NoFailure
    /\ is_valid = FALSE
    /\ result = None
    /\ vresult = None
    /\ repairs = <<>>
    /\ records = <<>>
    /\ stats = None
    /\ tagHist = <<>>
    /\ topTags = None

NextHash == Derive

SpecHash == InitHash /\ [][NextHash]_vars

\* ------------------------------------------------------- claims on the hash
NoMetadata == [is_none |-> TRUE, items |-> <<>>]
EmptyMetadata == [is_none |-> FALSE, items |-> <<>>]

\* the same key/value pairs in every insertion order
Reorderings(ps) ==
    { q \in [DOMAIN ps -> {ps[i] : i \in DOMAIN ps}] :
        \A i, j \in DOMAIN ps : i # j => q[i] # q[j] }

\* C3: the result of generate_content_hash is the same for every insertion
\* order of the metadata's entries, and for a metadata that is None or empty it
\* is the digest of the content alone (so derive(c, {}) = derive(c, None)).
C3_HashOrderIndependent ==
    hresult # None =>
      /\ \A q \in Reorderings(hmeta.items) :
            generate_content_hash(hcontent, [hmeta EXCEPT !.items = q]) = hresult
      /\ hmeta.items = <<>> => hresult = [exc |-> "none", hash |-> Sha256Hex(hcontent)]
      /\ generate_content_hash(hcontent, EmptyMetadata)
            = generate_content_hash(hcontent, NoMetadata)

\* C3 witness: a hash was returned for two entries inserted against key order
C3_Witness ==
    /\ hresult # None /\ hresult.exc = "none"
    /\ Len(hmeta.items) = 2
    /\ hmeta.items[1].k = <<"b">> /\ hmeta.items[2].k = <<"a">>
    /\ hmeta.items[1].v # hmeta.items[2].v
    /\ \A i \in 1..2 : IsInstanceSerializable(hmeta.items[i].v)

\* C4: generate_content_hash raises for no content and no metadata mapping
C4_HashNeverRaises ==
    hresult # None => hresult.exc = "none"

\* ------------------------------------------------------------- json.loads
\* The decoder on the characters of a text: strings without escapes, integers,
\* null, true, false, arrays and objects, blanks between tokens.
ParseFail == [ok |-> FALSE, val |-> PyNone, pos |-> 0]
ParseOk(v, p) == [ok |-> TRUE, val |-> v, pos |-> p]

Digits == {"0", "1", "2", "3", "4", "5", "6", "7", "8", "9"}

RECURSIVE SkipSpaces(_, _)
SkipSpaces(cs, i) ==
    IF i <= Len(cs) /\ cs[i] = " " THEN SkipSpaces(cs, i + 1) ELSE i

\* the index of the closing quote at or after i; 0 when there is none
RECURSIVE ScanString(_, _)
ScanString(cs, i) ==
    IF i > Len(cs) THEN 0
    ELSE IF cs[i] = "\"" THEN i
    ELSE ScanString(cs, i + 1)

\* the first index at or after i that holds no digit
RECURSIVE ScanDigits(_, _)
ScanDigits(cs, i) ==
    IF i <= Len(cs) /\ cs[i] \in Digits THEN ScanDigits(cs, i + 1) ELSE i

HasWord(cs, i, w) ==
    /\ i + Len(w) - 1 <= Len(cs)
    /\ SubSeq(cs, i, i + Len(w) - 1) = w

\* d[k] = v on the pairs of a dict: a key that is there keeps its place
DictSet(ps, k, v) ==
    IF \E i \in DOMAIN ps : ps[i].k = k
    THEN [i \in DOMAIN ps |-> IF ps[i].k = k THEN [k |-> k, v |-> v] ELSE ps[i]]
    ELSE Append(ps, [k |-> k, v |-> v])

RECURSIVE ParseValue(_, _)
RECURSIVE ParseElements(_, _, _)
RECURSIVE ParseMembers(_, _, _)
ParseValue(cs, i0) ==
    LET i == SkipSpaces(cs, i0) IN
    IF i > Len(cs) THEN ParseFail
    ELSE CASE cs[i] = "\"" ->
                LET j == ScanString(cs, i + 1) IN
                IF j = 0 THEN ParseFail
                ELSE ParseOk(PyStr(SubSeq(cs, i + 1, j - 1)), j + 1)
           [] cs[i] = "[" ->
                LET k == SkipSpaces(cs, i + 1) IN
                IF k <= Len(cs) /\ cs[k] = "]" THEN ParseOk(PyList(<<>>), k + 1)
                ELSE ParseElements(cs, i + 1, <<>>)
           [] cs[i] = "{" ->
                LET k == SkipSpaces(cs, i + 1) IN
                IF k <= Len(cs) /\ cs[k] = "}" THEN ParseOk(PyDict(<<>>), k + 1)
                ELSE ParseMembers(cs, i + 1, <<>>)
           [] cs[i] \in Digits \cup {"-"} ->
                LET d == IF cs[i] = "-" THEN i + 1 ELSE i
                    j == ScanDigits(cs, d)
                IN  IF j = d \/ (j > d + 1 /\ cs[d] = "0") THEN ParseFail
                    ELSE ParseOk([t |-> "int", s |-> SubSeq(cs, i, j - 1),
                                  items |-> <<>>], j)
           [] HasWord(cs, i, <<"n", "u", "l", "l">>) -> ParseOk(PyNone, i + 4)
           [] HasWord(cs, i, <<"t", "r", "u", "e">>) -> ParseOk(PyBool(TRUE), i + 4)
           [] HasWord(cs, i, <<"f", "a", "l", "s", "e">>) -> ParseOk(PyBool(FALSE), i + 5)
           [] OTHER -> ParseFail

ParseElements(cs, i, acc) ==
    LET r == ParseValue(cs, i) IN
    IF ~r.ok THEN ParseFail
    ELSE LET k == SkipSpaces(cs, r.pos) IN
         IF k > Len(cs) THEN ParseFail
         ELSE IF cs[k] = "," THEN ParseElements(cs, k + 1, Append(acc, r.val))
         ELSE IF cs[k] = "]" THEN ParseOk(PyList(Append(acc, r.val)), k + 1)
         ELSE ParseFail

ParseMembers(cs, i, acc) ==
    LET ks == SkipSpaces(cs, i) IN
    IF ks > Len(cs) \/ cs[ks] # "\"" THEN ParseFail
    ELSE LET kr == ParseValue(cs, ks) IN
         IF ~kr.ok THEN ParseFail
         ELSE LET c == SkipSpaces(cs, kr.pos) IN
              IF c > Len(cs) \/ cs[c] # ":" THEN ParseFail
              ELSE LET vr == ParseValue(cs, c + 1) IN
                   IF ~vr.ok THEN ParseFail
                   ELSE LET k == SkipSpaces(cs, vr.pos)
                            more == DictSet(acc, kr.val.s, vr.val)
                        IN  IF k > Len(cs) THEN ParseFail
                            ELSE IF cs[k] = "," THEN ParseMembers(cs, k + 1, more)
                            ELSE IF cs[k] = "}" THEN ParseOk(PyDict(more), k + 1)
                            ELSE ParseFail

\* json.loads(text): ok = FALSE stands for json.JSONDecodeError
JsonLoads(cs) ==
    LET r == ParseValue(cs, 1) IN
    IF r.ok /\ SkipSpaces(cs, r.pos) > Len(cs)
    THEN [ok |-> TRUE, val |-> r.val]
    ELSE [ok |-> FALSE, val |-> PyNone]

\* --------------------------------------------------------- get_database_stats
\* a field that is there (None == <<>> is the missing key, and Python's None
\* in a report)
Some(x) == <<x>>

\* bool(v)
Truthy(v) ==
    CASE v.t \in {"str", "none"} -> v.s # <<>>
      [] v.t \in {"int", "float"} -> v.s \notin {<<"0">>, <<"-", "0">>, <<"0.0">>}
      [] v.t = "bool" -> v.s = <<"true">>
      [] v.t \in {"list", "dict"} -> v.items # <<>>
      [] OTHER -> TRUE

\* hash(v) raises TypeError for a list and a dict
Hashable(v) == v.t \notin {"list", "dict"}

\* what a for loop over v visits; ok = FALSE stands for TypeError
Iterate(v) ==
    CASE v.t = "list" -> [ok |-> TRUE, items |-> v.items]
      [] v.t = "str" -> [ok |-> TRUE, items |-> [i \in DOMAIN v.s |-> PyStr(<<v.s[i]>>)]]
      [] v.t = "dict" -> [ok |-> TRUE,
                          items |-> [i \in DOMAIN v.items |-> PyStr(v.items[i].k)]]
      [] OTHER -> [ok |-> FALSE, items |-> <<>>]

\* d[key] = d.get(key, 0) + 1 on an insertion-ordered dict of [key, n]; the
\* keys of the model are equal only when they are the same value
DictIncr(d, key) ==
    IF \E i \in DOMAIN d : d[i].key = key
    THEN [i \in DOMAIN d |-> IF d[i].key = key THEN [key |-> key, n |-> d[i].n + 1]
                             ELSE d[i]]
    ELSE Append(d, [key |-> key, n |-> 1])

\* the for loop over the tags: it stops at the first unhashable tag, and the
\* counts made before it stay
RECURSIVE CountTags(_, _)
CountTags(d, tags) ==
    IF tags = <<>> THEN d
    ELSE IF ~Hashable(Head(tags)) THEN d
    ELSE CountTags(DictIncr(d, Head(tags)), Tail(tags))

DefaultTags == PyStr(<<"[", "]">>)

\* lines 130-136: the tag histogram after one record
TagStats(d, metadata) ==
    LET tags_str == IF metadata.tags = <<>> THEN DefaultTags ELSE metadata.tags[1]
        loaded == IF tags_str.t = "str" THEN JsonLoads(tags_str.s)
                  ELSE [ok |-> TRUE, val |-> PyList(<<>>)]
    IN  IF ~loaded.ok THEN d
        ELSE IF ~Iterate(loaded.val).ok THEN d
        ELSE CountTags(d, Iterate(loaded.val).items)

\* ---- floats: [mag, v]. "fin": the integer v; "big": finite, past the years
\* datetime has; "inf"; "nan"
Fin(v) == [mag |-> "fin", v |-> v]
Big == [mag |-> "big", v |-> 0]
Inf == [mag |-> "inf", v |-> 0]
NaN == [mag |-> "nan", v |-> 0]

MagRank(x) == CASE x.mag = "fin" -> 0 [] x.mag = "big" -> 1 [] OTHER -> 2

\* a < b on floats
FloatLt(a, b) ==
    IF a.mag = "nan" \/ b.mag = "nan" THEN FALSE
    ELSE IF a.mag = "fin" /\ b.mag = "fin" THEN a.v < b.v
    ELSE MagRank(a) < MagRank(b)

DigitVal(c) == CHOOSE n \in 0..9 : ToString(n) = c

RECURSIVE DigitsToInt(_, _)
DigitsToInt(cs, acc) ==
    IF cs = <<>> THEN acc
    ELSE DigitsToInt(Tail(cs), acc * 10 + DigitVal(Head(cs)))

IsDigits(cs) == cs # <<>> /\ \A i \in DOMAIN cs : cs[i] \in Digits

\* float(text) of an integer literal, "1e12", "inf" or "nan"; anything else is
\* ValueError
FloatOfText(cs) ==
    IF IsDigits(cs) THEN [exc |-> "none", val |-> Fin(DigitsToInt(cs, 0))]
    ELSE IF cs # <<>> /\ Head(cs) = "-" /\ IsDigits(Tail(cs))
    THEN [exc |-> "none", val |-> Fin(0 - DigitsToInt(Tail(cs), 0))]
    ELSE IF cs = <<"1", "e", "1", "2">> THEN [exc |-> "none", val |-> Big]
    ELSE IF cs = <<"i", "n", "f">> THEN [exc |-> "none", val |-> Inf]
    ELSE IF cs = <<"n", "a", "n">> THEN [exc |-> "none", val |-> NaN]
    ELSE [exc |-> "ValueError", val |-> NaN]

\* float(v)
FloatOf(v) ==
    CASE v.t \in {"str", "int"} -> FloatOfText(v.s)
      [] v.t = "bool" -> [exc |-> "none", val |-> Fin(IF v.s = <<"true">> THEN 1 ELSE 0)]
      [] OTHER -> [exc |-> "TypeError", val |-> NaN]

\* datetime.fromtimestamp(x).isoformat(), the local zone being UTC, for the
\* seconds next to the epoch
IsoFormat(v) ==
    IF v >= 0 THEN "1970-01-01T00:00:0" \o ToString(v)
    ELSE "1969-12-31T23:59:5" \o ToString(10 + v)

FromTimestamp(x) ==
    CASE x.mag = "fin" -> [exc |-> "none", iso |-> IsoFormat(x.v)]
      [] x.mag = "big" -> [exc |-> "ValueError", iso |-> ""]
      [] x.mag = "nan" -> [exc |-> "ValueError", iso |-> ""]
      [] OTHER -> [exc |-> "OverflowError", iso |-> ""]

\* newest_timestamp = 0
NewestStart == Fin(0)

\* lines 139-150 on the trackers t = [exc, oldest_timestamp, newest_timestamp,
\* oldest_memory, newest_memory]; exc is the exception that leaves the loop
TimestampStats(t, metadata) ==
    LET timestamp_str == IF metadata.timestamp = <<>> THEN PyNone
                         ELSE metadata.timestamp[1]
        f == FloatOf(timestamp_str)
        timestamp == f.val
        lower == FloatLt(timestamp, t.oldest_timestamp)
        t1 == IF lower THEN [t EXCEPT !.oldest_timestamp = timestamp] ELSE t
        c == FromTimestamp(timestamp)
        t2 == IF lower THEN [t1 EXCEPT !.oldest_memory = Some(c.iso)] ELSE t1
        higher == FloatLt(t2.newest_timestamp, timestamp)
        t3 == IF higher THEN [t2 EXCEPT !.newest_timestamp = timestamp] ELSE t2
        t4 == IF higher THEN [t3 EXCEPT !.newest_memory = Some(c.iso)] ELSE t3
    IN  IF ~Truthy(timestamp_str) THEN t
        ELSE IF f.exc = "ValueError" THEN t
        ELSE IF f.exc # "none" THEN [t EXCEPT !.exc = f.exc]
        ELSE IF lower /\ c.exc = "ValueError" THEN t1
        ELSE IF lower /\ c.exc # "none" THEN [t1 EXCEPT !.exc = c.exc]
        ELSE IF higher /\ c.exc = "ValueError" THEN t3
        ELSE IF higher /\ c.exc # "none" THEN [t3 EXCEPT !.exc = c.exc]
        ELSE t4

ReverseTies(d) == [i \in DOMAIN d |-> d[Len(d) + 1 - i]]

\* the place of a pair in a list sorted by descending count, behind its equals
RECURSIVE InsertByCount(_, _)
InsertByCount(p, sorted) ==
    IF sorted = <<>> THEN <<p>>
    ELSE IF Head(sorted).n < p.n THEN <<p>> \o sorted
    ELSE <<Head(sorted)>> \o InsertByCount(p, Tail(sorted))

RECURSIVE SortedTagsFrom(_, _)
SortedTagsFrom(d, sorted) ==
    IF d = <<>> THEN sorted
    ELSE SortedTagsFrom(Tail(d), InsertByCount(Head(d), sorted))

SortedTagsUnstable(d) == SortedTagsFrom(ReverseTies(d), <<>>)

\* sorted(stats["tags"].items(), key=lambda x: x[1], reverse=True): stable
SortedTags(d) == SortedTagsFrom(d, <<>>)

TopN == 10

\* dict(sorted_tags[:10]) if len(sorted_tags) > 10 else dict(sorted_tags)
TopTags(d) ==
    LET sorted_tags == SortedTags(d) IN
    IF Len(sorted_tags) > TopN THEN SubSeq(sorted_tags, 1, TopN) ELSE sorted_tags

\* the loop of lines 120-150 over the records from index i on; a = [exc,
\* total_content_length, memory_types, tags, trackers]
RECURSIVE ScanRecords(_, _, _)
ScanRecords(a, rs, i) ==
    IF i > Len(rs) \/ a.exc # "none" THEN a
    ELSE LET r == rs[i]
             memory_type == IF r.memory_type = <<>> THEN PyStr(<<>>)
                            ELSE r.memory_type[1]
             t == TimestampStats(a.t, r)
         IN  ScanRecords(
                [exc |-> IF ~Hashable(memory_type) THEN "TypeError" ELSE t.exc,
                 total_content_length |-> a.total_content_length + Len(r.document),
                 memory_types |-> DictIncr(a.memory_types, memory_type),
                 tags |-> TagStats(a.tags, r),
                 t |-> t],
                rs, i + 1)

\* get_database_stats(storage) on a store that holds the records rs
get_database_stats(rs) ==
    LET count == Len(rs)
        a == ScanRecords(
                [exc |-> "none", total_content_length |-> 0, memory_types |-> <<>>,
                 tags |-> <<>>,
                 t |-> [exc |-> "none", oldest_timestamp |-> Inf,
                        newest_timestamp |-> NewestStart,
                        oldest_memory |-> None, newest_memory |-> None]],
                rs, 1)
    IN  IF a.exc # "none" THEN [kind |-> "error", error |-> a.exc]
        ELSE [kind |-> "stats",
              total_memories |-> count,
              total_content_length |-> a.total_content_length,
              avg_content_length |-> IF count > 0
                                     THEN <<a.total_content_length, count>>
                                     ELSE <<0, 1>>,
              memory_types |-> a.memory_types,
              tags |-> a.tags,
              oldest_memory |-> a.t.oldest_memory,
              newest_memory |-> a.t.newest_memory,
              top_tags |-> IF rs # <<>> THEN Some(TopTags(a.tags)) ELSE None]

\* the call: the scan of the store as it is now
GetStats ==
    /\ stats = None
    /\ stats' = get_database_stats(records)
    /\ UNCHANGED records
    /\ UNCHANGED <<repairVars, hashVars, topVars>>

\* ---- inputs of the model
MaxRecords == 2

Chars(text) ==
    CASE text = "[\"a\"]" -> <<"[", "\"", "a", "\"", "]">>
      [] text = "[\"b\", \"a\", \"b\"]" ->
            <<"[", "\"", "b", "\"", ",", " ", "\"", "a", "\"", ",", " ", "\"", "b", "\"", "]">>
      [] text = "[\"a\", [\"b\"], \"c\"]" ->
            <<"[", "\"", "a", "\"", ",", " ", "[", "\"", "b", "\"", "]", ",", " ",
              "\"", "c", "\"", "]">>
      [] text = "not-json" -> <<"n", "o", "t", "-", "j", "s", "o", "n">>
      [] text = "\"ab\"" -> <<"\"", "a", "b", "\"">>
      [] text = "{\"a\": 1}" -> <<"{", "\"", "a", "\"", ":", " ", "1", "}">>
      [] text = "5" -> <<"5">>
      [] text = "note" -> <<"n", "o", "t", "e">>
      [] text = "hi" -> <<"h", "i">>
      [] text = "" -> <<>>
      [] text = "0" -> <<"0">>
      [] text = "1" -> <<"1">>
      [] text = "-1" -> <<"-", "1">>
      [] text = "abc" -> <<"a", "b", "c">>
      [] text = "1e12" -> <<"1", "e", "1", "2">>
      [] text = "inf" -> <<"i", "n", "f">>
      [] text = "nan" -> <<"n", "a", "n">>

\* what the tags field of a stored metadata may hold
TagFields ==
    { <<>> }
    \cup { Some(PyStr(Chars(text))) :
             text \in {"[\"a\"]", "[\"b\", \"a\", \"b\"]", "[\"a\", [\"b\"], \"c\"]",
                       "not-json", "\"ab\"", "{\"a\": 1}", "5"} }
    \cup { Some(PyList(<<PyStr(<<"a">>)>>)), Some(PyInt(5)) }

\* what the timestamp field of a stored metadata may hold
TimestampFields ==
    { <<>> }
    \cup { Some(PyStr(Chars(text))) :
             text \in {"", "0", "1", "-1", "abc", "1e12", "inf", "nan"} }
    \cup { Some(PyInt(0)), Some(PyInt(2)), Some(PyList(<<PyInt(1)>>)) }

RecordSet ==
    { [document |-> sh.document, memory_type |-> sh.memory_type,
       tags |-> tg, timestamp |-> ts] :
        sh \in { [document |-> <<>>, memory_type |-> <<>>],
                 [document |-> Chars("hi"), memory_type |-> Some(PyStr(Chars("note")))] },
        tg \in TagFields, ts \in TimestampFields }

\* a memory is stored
AddMemory ==
    /\ stats = None
    /\ Len(records) < MaxRecords
    /\ \E r \in RecordSet : records' = Append(records, r)
    /\ UNCHANGED stats
    /\ UNCHANGED <<repairVars, hashVars, topVars>>

InitStats ==
    /\ records = <<>>
    /\ stats = None
    \* nothing else is going on
    /\ clock = [sec |-> 0, half |-> FALSE]
    /\ health = "ok"
    /\ storeCount = 0
    /\ collection = 0
    /\ nextHandle = 1
    /\ backupDirs = <<>>
    /\ chromaItems = <<>>
    /\ pc = "idle"
    /\ backup_path = ""
    /\ todo = <<>>
    /\ startHandle = 0
    /\ madeDir = FALSE
    /\ recreateCalled = FALSE
    /\ failedAt = NoFailure
    /\ is_valid = FALSE
    /\ result = None
    /\ vresult = None
    /\ repairs = <<>>
    /\ hcontent = ""
    /\ hmeta = [is_none |-> TRUE, items |-> <<>>]
    /\ hresult = None
    /\ tagHist = <<>>
    /\ topTags = None

NextStats ==
    \/ AddMemory
    \/ GetStats

SpecStats == InitStats /\ [][NextStats]_vars

\* ---- lines 157-158 on a histogram
MaxTags == 11
MaxFewTags == 6

\* the i-th tag met by a scan
TagKey(i) ==
    PyStr(IF i < 10 THEN <<"t", ToString(i)>>
          ELSE <<"t", ToString(i \div 10), ToString(i % 10)>>)

\* the histograms of at most MaxTags tags met once or twice, and of at most
\* MaxFewTags tags met up to three times
Histograms ==
    UNION { { [i \in 1..n |-> [key |-> TagKey(i), n |-> c[i]]] : c \in [1..n -> 1..2] }
            : n \in 0..MaxTags }
    \cup
    UNION { { [i \in 1..n |-> [key |-> TagKey(i), n |-> c[i]]] : c \in [1..n -> 1..3] }
            : n \in 0..MaxFewTags }

SortTags ==
    /\ topTags = None
    /\ topTags' = Some(TopTags(tagHist))
    /\ UNCHANGED tagHist
    /\ UNCHANGED <<repairVars, hashVars, statsVars>>

InitTop ==
    /\ tagHist \in Histograms
    /\ topTags = None
    \* nothing else is going on
    /\ clock = [sec |-> 0, half |-> FALSE]
    /\ health = "ok"
    /\ storeCount = 0
    /\ collection = 0
    /\ nextHandle = 1
    /\ backupDirs = <<>>
    /\ chromaItems = <<>>
    /\ pc = "idle"
    /\ backup_path = ""
    /\ todo = <<>>
    /\ startHandle = 0
    /\ madeDir = FALSE
    /\ recreateCalled = FALSE
    /\ failedAt = NoFailure
    /\ is_valid = FALSE
    /\ result = None
    /\ vresult = None
    /\ repairs = <<>>
    /\ hcontent = ""
    /\ hmeta = [is_none |-> TRUE, items |-> <<>>]
    /\ hresult = None
    /\ records = <<>>
    /\ stats = None

NextTop == SortTags

SpecTop == InitTop /\ [][NextTop]_vars

\* ------------------------------------------------------- claims on the stats
RECURSIVE SumDocuments(_)
SumDocuments(rs) ==
    IF rs = <<>> THEN 0 ELSE Len(Head(rs).document) + SumDocuments(Tail(rs))

RECURSIVE SumCounts(_)
SumCounts(d) == IF d = <<>> THEN 0 ELSE Head(d).n + SumCounts(Tail(d))

\* a histogram as a mapping, whatever the order of its keys
AsCounts(d) == {d[i] : i \in DOMAIN d}

\* the tag list of a record as C5 reads it: the decoded list of a string that
\* holds a JSON list, a native list itself, and no tag otherwise
RefTagList(r) ==
    LET field == IF r.tags = <<>> THEN DefaultTags ELSE r.tags[1]
        decoded == IF field.t = "str" THEN JsonLoads(field.s)
                   ELSE [ok |-> field.t = "list", val |-> field]
    IN  IF decoded.ok /\ decoded.val.t = "list"
           /\ \A i \in DOMAIN decoded.val.items : Hashable(decoded.val.items[i])
        THEN decoded.val.items
        ELSE <<>>

RECURSIVE RefTagCounts(_, _)
RefTagCounts(d, rs) ==
    IF rs = <<>> THEN d
    ELSE RefTagCounts(CountTags(d, RefTagList(Head(rs))), Tail(rs))

\* the tag histogram the scan itself makes of all the records
RECURSIVE ScanTagCounts(_, _)
ScanTagCounts(d, rs) ==
    IF rs = <<>> THEN d ELSE ScanTagCounts(TagStats(d, Head(rs)), Tail(rs))

\* C5: on records without timestamps, get_database_stats returns a report whose
\* tag histogram counts each element of each record's tag list once (nothing
\* for a record whose tags do not decode to a list), and every record counts
\* in total_memories, total_content_length and memory_types.
C5_TagHistogramIsReference ==
    (stats # None /\ \A i \in DOMAIN records : records[i].timestamp = <<>>) =>
      /\ stats.kind = "stats"
      /\ AsCounts(stats.tags) = AsCounts(RefTagCounts(<<>>, records))
      /\ stats.total_memories = Len(records)
      /\ stats.total_content_length = SumDocuments(records)
      /\ SumCounts(stats.memory_types) = Len(records)

\* C7: whatever the timestamps of the records are, get_database_stats returns a
\* report and not the error result, and every record counts in
\* total_content_length, memory_types and the tag histogram.
C7_BadTimestampOnlySkipped ==
    stats # None =>
      /\ stats.kind = "stats"
      /\ stats.total_content_length = SumDocuments(records)
      /\ SumCounts(stats.memory_types) = Len(records)
      /\ AsCounts(stats.tags) = AsCounts(ScanTagCounts(<<>>, records))

\* the timestamps of the records that are numbers, as floats
ParsedTimestamps(rs) ==
    { FloatOf(rs[i].timestamp[1]).val :
        i \in { j \in DOMAIN rs : /\ rs[j].timestamp # <<>>
                                   /\ FloatOf(rs[j].timestamp[1]).exc = "none" } }

\* C8: in a report made of records whose timestamps, where they parse, are
\* ordinary numbers of seconds, oldest_memory is the conversion of the least
\* and newest_memory of the greatest of them, and both are None exactly when
\* none parses.
C8_OldestNewestAreMinMax ==
    LET P == ParsedTimestamps(records) IN
    (stats # None /\ stats.kind = "stats" /\ \A x \in P : x.mag = "fin") =>
      /\ IF P = {}
         THEN stats.oldest_memory = None /\ stats.newest_memory = None
         ELSE /\ \E x \in P : /\ \A y \in P : x.v <= y.v
                              /\ stats.oldest_memory = Some(IsoFormat(x.v))
              /\ \E x \in P : /\ \A y \in P : x.v >= y.v
                              /\ stats.newest_memory = Some(IsoFormat(x.v))

\* ---------------------------------------------------- claims on the top tags
\* the place of a pair of the histogram: the order tags were first met in
Place(p) == CHOOSE j \in DOMAIN tagHist : tagHist[j].key = p.key

\* p goes before q: a higher count, or the same count and met earlier
GoesBefore(p, q) == p.n > q.n \/ (p.n = q.n /\ Place(p) < Place(q))

\* C6: top_tags holds min(10, number of distinct tags) pairs of the histogram,
\* by descending count, equal counts in the order they were first met, and
\* every pair left out goes after every pair kept.
C6_TopTagsStableDescending ==
    topTags # None =>
      LET top == topTags[1]
          kept == {top[i] : i \in DOMAIN top}
      IN  /\ Len(top) = IF Len(tagHist) > 10 THEN 10 ELSE Len(tagHist)
          /\ kept \subseteq {tagHist[j] : j \in DOMAIN tagHist}
          /\ \A i, j \in DOMAIN top : i < j => GoesBefore(top[i], top[j])
          /\ \A j \in DOMAIN tagHist :
                tagHist[j] \notin kept => \A i \in DOMAIN top : GoesBefore(top[i], tagHist[j])

\* C6 witness: more than ten tags, and a tie across the cut
C6_Witness ==
    /\ topTags # None
    /\ Len(tagHist) > 10
    /\ \E j \in DOMAIN tagHist :
          /\ tagHist[j] \notin {topTags[1][i] : i \in DOMAIN topTags[1]}
          /\ tagHist[j].n = topTags[1][10].n
    /\ topTags[1][1].n > topTags[1][10].n
    /\ tagHist[1].n < topTags[1][1].n

====
